---- MODULE Spec2Model ----
(***************************************************************************)
(* Model of exdir/plugin_interface/plugin_interface.py: the Plugin         *)
(* (Bundle) constructor, solve_plugin_order (the dependency resolver) and  *)
(* Manager.__init__ (the pipeline manager).                                *)
(*                                                                         *)
(* A Unit is identified by its position in the list handed to              *)
(* solve_plugin_order; plugins[i] is the name of the Bundle that Unit i    *)
(* refers to through _plugin_module.  The four constraint lists of a       *)
(* Bundle are kept as sets: the code only iterates them to add their       *)
(* members to sets, so neither their order nor repetitions matter.         *)
(* A Python dict is a pair (keys, deps): the keys in insertion order and   *)
(* the mapping itself.                                                     *)
(***************************************************************************)
EXTENDS Integers, Sequences, FiniteSets, TLC

VARIABLES
    plugins,          \* the list of Units of the call: Unit i belongs to Bundle plugins[i]
    bundles,          \* Bundle name -> its four constraint lists
    pc,               \* "idle" | "closure" | "assign" | "sort" | "returned" | "raised"
    read_mode,        \* the read_mode argument of the call in progress
    plugin_map,       \* dict name -> Unit
    dependency_map,   \* dict name -> set of names, with its key order
    queue,            \* closure loop: the current frontier
    new_queue,        \* closure loop: the next frontier
    needed_plugins,   \* closure loop: the names seen so far
    ordered_plugins,  \* the output list (Units)
    error,            \* exception that ended the call, "none" if none
    closure_iters,    \* iterations of the closure loop in this call (capped)
    sort_iters,       \* iterations of the sort loop in this call
    first_order,      \* per mode: the order the caller got from its first finished call
    plugin_units,     \* Bundle name -> the kinds for which the Bundle has a Unit
    manager           \* the Manager under construction

vars == <<plugins, bundles, pc, read_mode, plugin_map, dependency_map, queue,
          new_queue, needed_plugins, ordered_plugins, error, closure_iters, sort_iters,
          first_order, plugin_units, manager>>

----------------------------------------------------------------------------
(* Bounds of the model *)

Names == {"A", "B", "C"}
NameOrder == <<"A", "B", "C">>
MaxUnits == 3
MaxConstraints == 2
MaxBundles == 2
ListNames == {"write_after", "write_before", "read_after", "read_before"}
NoOrder == <<0>>
IterCap == MaxUnits + 2

----------------------------------------------------------------------------
(* Helpers for dicts and lists *)

Range(s) == {s[i] : i \in DOMAIN s}

Put(f, k, v) == [x \in (DOMAIN f) \cup {k} |-> IF x = k THEN v ELSE f[x]]

EmptyDict == [keys |-> <<>>, deps |-> <<>>]

\* dict comprehension {k: v for k, v in d.items() if k in keep}
Restrict(f, keep) == [x \in (DOMAIN f) \cap keep |-> f[x]]

RECURSIVE FilterSeq(_, _)
FilterSeq(s, keep) ==
    IF s = <<>> THEN <<>>
    ELSE IF Head(s) \in keep THEN <<Head(s)>> \o FilterSeq(Tail(s), keep)
         ELSE FilterSeq(Tail(s), keep)

----------------------------------------------------------------------------
(* Plugin: the four ordering lists of a Bundle *)

Plugin(write_before, write_after, read_before, read_after) ==
    [write_after |-> write_after, write_before |-> write_before,
     read_after |-> read_after, read_before |-> read_before]

AfterList_both_modes(b, rm) == b.read_after \cup b.write_after

\* lines 200-203: the after list of the mode
AfterList(b, rm) == IF rm THEN b.read_after ELSE b.write_after

\* lines 212-215: the before list of the mode
BeforeList(b, rm) == IF rm THEN b.read_before ELSE b.write_before

----------------------------------------------------------------------------
(* solve_plugin_order, lines 191-218: building the maps *)

enabled_plugins(units) == Range(units)

new_set_unfiltered(original, enabled) == original

\* lines 205-208: keep the names of the after list that are enabled
new_set(original, enabled) == {other \in original : other \in enabled}

\* lines 198-209 after the first i Units
RECURSIVE SeedLoop(_, _, _, _)
SeedLoop(units, bnd, rm, i) ==
    IF i = 0 THEN [plugin_map |-> <<>>, keys |-> <<>>, deps |-> <<>>]
    ELSE LET prev == SeedLoop(units, bnd, rm, i - 1)
             name == units[i]
         IN  [plugin_map |-> Put(prev.plugin_map, name, i),
              keys |-> IF name \in DOMAIN prev.deps THEN prev.keys
                       ELSE Append(prev.keys, name),
              deps |-> Put(prev.deps, name,
                           new_set(AfterList(bnd[name], rm), enabled_plugins(units)))]

before_edges_reversed(name, original, keys) ==
    {<<name, before>> : before \in {b \in original : b \in keys}}

\* lines 216-218: the pairs <<key, dependency>> that the before list of the
\* Bundle called name adds: name becomes a dependency of every listed key
before_edges(name, original, keys) ==
    {<<before, name>> : before \in {b \in original : b \in keys}}

\* lines 211-218 after the first i Units
RECURSIVE BeforeLoop(_, _, _, _, _)
BeforeLoop(units, bnd, rm, deps, i) ==
    IF i = 0 THEN deps
    ELSE LET d == BeforeLoop(units, bnd, rm, deps, i - 1)
             name == units[i]
             edges == before_edges(name, BeforeList(bnd[name], rm), DOMAIN d)
         IN  [k \in DOMAIN d |-> d[k] \cup {e[2] : e \in {f \in edges : f[1] = k}}]

\* lines 192-218
BuildMaps(units, bnd, rm) ==
    LET seeded == SeedLoop(units, bnd, rm, Len(units))
    IN  [plugin_map |-> seeded.plugin_map,
         keys |-> seeded.keys,
         deps |-> BeforeLoop(units, bnd, rm, seeded.deps, Len(units))]

----------------------------------------------------------------------------
(* solve_plugin_order, lines 220-240: the reachability pass and the pruning *)

closure_step_reached_only(q, needed, deps) ==
    LET reached == UNION {deps[name] : name \in q}
    IN  [queue |-> reached, needed |-> needed \cup reached]

\* lines 223-228: one iteration of the while loop
closure_step(q, needed, deps) ==
    [queue |-> UNION {deps[name] : name \in q}, needed |-> needed \cup q]

\* lines 222-228 run to their end.  After k iterations the queue holds the
\* names that end a walk of k dependency edges; a non-empty queue after as
\* many iterations as there are keys means a walk that repeats a name, so the
\* queue is never empty again and the loop does not end.
RECURSIVE ClosureLoop(_, _, _, _)
ClosureLoop(q, needed, deps, n) ==
    IF q = {} THEN [status |-> "done", needed |-> needed, iters |-> n]
    ELSE IF ~(q \subseteq DOMAIN deps)
         THEN [status |-> "KeyError", needed |-> needed, iters |-> n]
    ELSE IF n >= Cardinality(DOMAIN deps)
         THEN [status |-> "diverges", needed |-> needed, iters |-> n]
    ELSE LET s == closure_step(q, needed, deps)
         IN  ClosureLoop(s.queue, s.needed, deps, n + 1)

\* lines 231-240: both dicts restricted to needed_plugins, key order kept
prune(keys, deps, needed) ==
    [keys |-> FilterSeq(keys, needed), deps |-> Restrict(deps, needed)]

----------------------------------------------------------------------------
(* solve_plugin_order, lines 242-262: the sort *)

ready_all(dm) == dm.keys

ready_first(dm) ==
    LET ready == FilterSeq(dm.keys, {name \in DOMAIN dm.deps : dm.deps[name] = {}})
    IN  IF ready = <<>> THEN <<>> ELSE <<ready[1]>>

\* lines 244-248: the keys whose dependency set is empty, in dict order
ready_list(dm) == FilterSeq(dm.keys, {name \in DOMAIN dm.deps : dm.deps[name] = {}})

\* lines 253-260: one iteration of the while loop that found ready names
sort_step(dm, pm, ordered) ==
    LET ready == ready_list(dm)
        rest  == (DOMAIN dm.deps) \ Range(ready)
    IN  [keys |-> FilterSeq(dm.keys, rest),
         deps |-> [name \in rest |-> dm.deps[name] \ Range(ready)],
         ordered |-> ordered \o [i \in 1..Len(ready) |-> pm[ready[i]]]]

RECURSIVE SortLoop(_, _, _)
SortLoop(dm, pm, ordered) ==
    IF dm.keys = <<>> THEN [status |-> "returned", order |-> ordered]
    ELSE IF ready_list(dm) = <<>> THEN [status |-> "ValueError", order |-> <<>>]
    ELSE LET s == sort_step(dm, pm, ordered)
         IN  SortLoop([keys |-> s.keys, deps |-> s.deps], pm, s.ordered)

\* the whole of solve_plugin_order as a function of its arguments
Solve(units, bnd, rm) ==
    LET maps == BuildMaps(units, bnd, rm)
        cl   == ClosureLoop(enabled_plugins(units), {}, maps.deps, 0)
    IN  IF cl.status # "done" THEN [status |-> cl.status, order |-> <<>>]
        ELSE SortLoop(prune(maps.keys, maps.deps, cl.needed),
                      Restrict(maps.plugin_map, cl.needed), <<>>)

bundle_lists_shared(bnd, rm, deps) ==
    [n \in DOMAIN bnd |->
        IF n \notin DOMAIN deps THEN bnd[n]
        ELSE IF rm THEN [bnd[n] EXCEPT !.read_after = deps[n]]
             ELSE [bnd[n] EXCEPT !.write_after = deps[n]]]

\* line 205: every dependency set is a new set object, so the updates in place
\* of lines 218 and 257 do not reach the Bundles' own lists
bundle_lists(bnd, rm, deps) == bnd

----------------------------------------------------------------------------
(* Inputs of the resolver *)

RECURSIVE SubsetsUpTo(_, _)
SubsetsUpTo(S, k) ==
    IF k = 0 THEN {{}}
    ELSE LET smaller == SubsetsUpTo(S, k - 1)
         IN  smaller \cup {T \cup {x} : T \in smaller, x \in S}

\* the declarations "n lists m in list l" that Bundles of the set declaring can make
Declarations(declaring) == declaring \X ListNames \X Names

BundlesOf(decl) ==
    [n \in Names |->
        Plugin({m \in Names : <<n, "write_before", m>> \in decl},
               {m \in Names : <<n, "write_after", m>> \in decl},
               {m \in Names : <<n, "read_before", m>> \in decl},
               {m \in Names : <<n, "read_after", m>> \in decl})]

\* the Bundles A, B, C with at most MaxConstraints declarations between them,
\* all made by Bundles of the set declaring
BundleConfigs(declaring) ==
    {BundlesOf(decl) : decl \in SubsetsUpTo(Declarations(declaring), MaxConstraints)}

RECURSIVE FirstOccurrences(_)
FirstOccurrences(units) ==
    IF units = <<>> THEN <<>>
    ELSE LET front == FirstOccurrences(SubSeq(units, 1, Len(units) - 1))
             name  == units[Len(units)]
         IN  IF name \in Range(front) THEN front ELSE Append(front, name)

\* the lists of at most MaxUnits Units in which the Bundles appear for the
\* first time in the order A, B, C; every other list is one of these with the
\* Bundles renamed, and the declarations range over all the names
UnitLists ==
    {units \in UNION {[1..k -> Names] : k \in 0..MaxUnits} :
        LET first == FirstOccurrences(units)
        IN  first = SubSeq(NameOrder, 1, Len(first))}

NoManager == [pc |-> "none", given |-> <<>>, plugins |-> <<>>, kind |-> 0,
              lists |-> <<>>, orders |-> <<>>]

----------------------------------------------------------------------------
(* The resolver as a state machine: calls of solve_plugin_order on fixed      *)
(* Units.  Only the Bundles of the Units declare constraints: the code reads *)
(* the lists of no other Bundle.                                             *)

Init ==
    /\ plugins \in UnitLists
    /\ bundles \in BundleConfigs(enabled_plugins(plugins))
    /\ pc = "idle"
    /\ read_mode = FALSE
    /\ plugin_map = <<>>
    /\ dependency_map = EmptyDict
    /\ queue = {}
    /\ new_queue = {}
    /\ needed_plugins = {}
    /\ ordered_plugins = <<>>
    /\ error = "none"
    /\ closure_iters = 0
    /\ sort_iters = 0
    /\ first_order = [rm \in BOOLEAN |-> NoOrder]
    /\ plugin_units = <<>>
    /\ manager = NoManager

\* lines 191-221: the maps and the first queue of a call on the list units
StartCall(units, rm) ==
    /\ plugins' = units
    /\ LET maps == BuildMaps(units, bundles, rm)
       IN  /\ plugin_map' = maps.plugin_map
           /\ dependency_map' = [keys |-> maps.keys, deps |-> maps.deps]
           /\ bundles' = bundle_lists(bundles, rm, maps.deps)
    /\ read_mode' = rm
    /\ queue' = enabled_plugins(units)
    /\ new_queue' = {}
    /\ needed_plugins' = {}
    /\ ordered_plugins' = <<>>
    /\ error' = "none"
    /\ closure_iters' = 0
    /\ sort_iters' = 0
    /\ pc' = "closure"

\* a caller calls solve_plugin_order(plugins, read_mode=rm), for the first
\* time or after an earlier call has returned
Call(rm) ==
    /\ pc \in {"idle", "returned"}
    /\ StartCall(plugins, rm)
    /\ UNCHANGED <<first_order, plugin_units, manager>>

\* the same, by a caller that keeps the order it got from its first finished
\* call of each mode
CallAgain(rm) ==
    /\ pc \in {"idle", "returned"}
    /\ StartCall(plugins, rm)
    /\ first_order' = IF pc = "returned" /\ first_order[read_mode] = NoOrder
                      THEN [first_order EXCEPT ![read_mode] = ordered_plugins]
                      ELSE first_order
    /\ UNCHANGED <<plugin_units, manager>>

\* lines 222-227: the loop test passes and the body fills new_queue
ClosureIter ==
    /\ pc = "closure"
    /\ queue # {}
    /\ IF queue \subseteq DOMAIN dependency_map.deps
       THEN LET s == closure_step(queue, needed_plugins, dependency_map.deps)
            IN  /\ new_queue' = s.queue
                /\ needed_plugins' = s.needed
                /\ closure_iters' = IF closure_iters < IterCap
                                    THEN closure_iters + 1 ELSE closure_iters
                /\ pc' = "assign"
                /\ UNCHANGED error
       ELSE /\ pc' = "raised"
            /\ error' = "KeyError"
            /\ UNCHANGED <<new_queue, needed_plugins, closure_iters>>
    /\ UNCHANGED <<plugins, bundles, read_mode, plugin_map, dependency_map, queue,
                   ordered_plugins, sort_iters, first_order, plugin_units, manager>>

\* line 228: queue = new_queue, back to the loop test
ClosureAssign ==
    /\ pc = "assign"
    /\ queue' = new_queue
    /\ pc' = "closure"
    /\ UNCHANGED <<plugins, bundles, read_mode, plugin_map, dependency_map, new_queue,
                   needed_plugins, ordered_plugins, error, closure_iters, sort_iters,
                   first_order, plugin_units, manager>>

\* lines 222, 230-242: the loop ends, both maps are pruned, the output is empty
Prune ==
    /\ pc = "closure"
    /\ queue = {}
    /\ plugin_map' = Restrict(plugin_map, needed_plugins)
    /\ dependency_map' = prune(dependency_map.keys, dependency_map.deps, needed_plugins)
    /\ ordered_plugins' = <<>>
    /\ pc' = "sort"
    /\ UNCHANGED <<plugins, bundles, read_mode, queue, new_queue, needed_plugins, error,
                   closure_iters, sort_iters, first_order, plugin_units, manager>>

\* lines 243-260: one iteration of the sort loop, or the raise of line 251
SortIter ==
    /\ pc = "sort"
    /\ dependency_map.keys # <<>>
    /\ sort_iters' = sort_iters + 1
    /\ IF ready_list(dependency_map) = <<>>
       THEN /\ pc' = "raised"
            /\ error' = "ValueError"
            /\ UNCHANGED <<dependency_map, ordered_plugins, bundles>>
       ELSE LET s == sort_step(dependency_map, plugin_map, ordered_plugins)
            IN  /\ dependency_map' = [keys |-> s.keys, deps |-> s.deps]
                /\ ordered_plugins' = s.ordered
                /\ bundles' = bundle_lists(bundles, read_mode, s.deps)
                /\ UNCHANGED <<pc, error>>
    /\ UNCHANGED <<plugins, read_mode, plugin_map, queue, new_queue, needed_plugins,
                   closure_iters, first_order, plugin_units, manager>>

\* lines 243, 262: the dict is empty, the call returns ordered_plugins
Return ==
    /\ pc = "sort"
    /\ dependency_map.keys = <<>>
    /\ pc' = "returned"
    /\ UNCHANGED <<plugins, bundles, read_mode, plugin_map, dependency_map, queue,
                   new_queue, needed_plugins, ordered_plugins, error, closure_iters,
                   sort_iters, first_order, plugin_units, manager>>

Next ==
    \/ \E rm \in BOOLEAN : Call(rm)
    \/ ClosureIter
    \/ ClosureAssign
    \/ Prune
    \/ SortIter
    \/ Return

Spec == Init /\ [][Next]_vars

NextRepeat ==
    \/ \E rm \in BOOLEAN : CallAgain(rm)
    \/ ClosureIter
    \/ ClosureAssign
    \/ Prune
    \/ SortIter
    \/ Return

SpecRepeat == Init /\ [][NextRepeat]_vars

\* a single call, which the interpreter runs on to its next statement
\* whenever there is one
FirstCall(rm) ==
    /\ pc = "idle"
    /\ Call(rm)

NextOneCall ==
    \/ \E rm \in BOOLEAN : FirstCall(rm)
    \/ ClosureIter
    \/ ClosureAssign
    \/ Prune
    \/ SortIter
    \/ Return

FairSpec == Init /\ [][NextOneCall]_vars /\ WF_vars(NextOneCall)

----------------------------------------------------------------------------
(* Plugin.__init__ and Manager.__init__ as a state machine: Bundles are      *)
(* constructed, handed to a Manager in the order of their construction, and  *)
(* the Manager resolves the write and the read order of each kind in turn.   *)

\* lines 302-306: the order in which the five kinds are resolved
KindOrder == <<"dataset", "attribute", "file", "group", "raw">>

\* the name arguments tried; "" stands for the empty name and for None
NameArgs == {"", "A", "B"}

\* the per-kind Unit lists tried: one Unit in each kind of the set
KindArgs == {{}, {"dataset"}, {"raw"}, {"dataset", "raw"}}

\* the ordering lists tried: no declaration, or one
ListArgs ==
    {Plugin({}, {}, {}, {})}
    \cup {Plugin({m}, {}, {}, {}) : m \in {"A", "B"}}
    \cup {Plugin({}, {}, {}, {m}) : m \in {"A", "B"}}

\* lines 6-31: Plugin(name, ...) returns a Bundle whatever the name is
PluginInit(name, kinds, lists) ==
    /\ manager.pc = "setup"
    /\ Len(manager.given) < MaxBundles
    /\ name \notin DOMAIN bundles
    /\ bundles' = Put(bundles, name, lists)
    /\ plugin_units' = Put(plugin_units, name, kinds)
    /\ manager' = [manager EXCEPT !.given = Append(@, name)]
    /\ UNCHANGED <<plugins, pc, read_mode, plugin_map, dependency_map, queue,
                   new_queue, needed_plugins, ordered_plugins, error, closure_iters,
                   sort_iters, first_order>>

\* lines 295-300: the Units of one kind, Bundle after Bundle
RECURSIVE KindList(_, _, _)
KindList(given, units, kind) ==
    IF given = <<>> THEN <<>>
    ELSE (IF kind \in units[Head(given)] THEN <<Head(given)>> ELSE <<>>)
         \o KindList(Tail(given), units, kind)

\* lines 271-300: Manager(plugins) collects the Bundles and the five lists
ManagerInit ==
    /\ manager.pc = "setup"
    /\ manager' = [manager EXCEPT
                      !.pc = "write",
                      !.plugins = manager.given,
                      !.kind = 1,
                      !.lists = [k \in 1..Len(KindOrder) |->
                                    KindList(manager.given, plugin_units, KindOrder[k])]]
    /\ UNCHANGED <<plugins, bundles, pc, read_mode, plugin_map, dependency_map, queue,
                   new_queue, needed_plugins, ordered_plugins, error, closure_iters,
                   sort_iters, first_order, plugin_units>>

\* lines 268, 269: Ordered.__init__ calls solve_plugin_order for its next order
OrderedCall ==
    /\ manager.pc \in {"write", "read"}
    /\ pc = "idle"
    /\ StartCall(manager.lists[manager.kind], manager.pc = "read")
    /\ UNCHANGED <<first_order, plugin_units, manager>>

\* lines 268, 269, 302-306: the returned order is stored; after read_order the
\* Ordered object is assigned and the next kind follows
OrderedStore ==
    /\ manager.pc \in {"write", "read"}
    /\ pc = "returned"
    /\ pc' = "idle"
    /\ manager' =
          IF manager.pc = "write"
          THEN [manager EXCEPT !.pc = "read",
                               !.orders = Append(@, [write_order |-> ordered_plugins])]
          ELSE [manager EXCEPT
                   !.pc = IF manager.kind = Len(KindOrder) THEN "ready" ELSE "write",
                   !.kind = IF manager.kind = Len(KindOrder) THEN @ ELSE @ + 1,
                   !.orders = [@ EXCEPT ![Len(@)] =
                                  [write_order |-> @.write_order,
                                   read_order |-> ordered_plugins]]]
    /\ UNCHANGED <<plugins, bundles, read_mode, plugin_map, dependency_map, queue,
                   new_queue, needed_plugins, ordered_plugins, error, closure_iters,
                   sort_iters, first_order, plugin_units>>

InitManager ==
    /\ plugins = <<>>
    /\ bundles = <<>>
    /\ pc = "idle"
    /\ read_mode = FALSE
    /\ plugin_map = <<>>
    /\ dependency_map = EmptyDict
    /\ queue = {}
    /\ new_queue = {}
    /\ needed_plugins = {}
    /\ ordered_plugins = <<>>
    /\ error = "none"
    /\ closure_iters = 0
    /\ sort_iters = 0
    /\ first_order = [rm \in BOOLEAN |-> NoOrder]
    /\ plugin_units = <<>>
    /\ manager = [NoManager EXCEPT !.pc = "setup"]

NextManager ==
    \/ \E name \in NameArgs, kinds \in KindArgs, lists \in ListArgs :
          PluginInit(name, kinds, lists)
    \/ ManagerInit
    \/ OrderedCall
    \/ ClosureIter
    \/ ClosureAssign
    \/ Prune
    \/ SortIter
    \/ Return
    \/ OrderedStore

SpecManager == InitManager /\ [][NextManager]_vars

\* the interpreter runs the constructor on to its next statement
FairSpecManager == SpecManager /\ WF_vars(NextManager)

\* an exception of solve_plugin_order leaves Ordered.__init__ and Manager.__init__
ManagerFailed == manager.pc \in {"write", "read"} /\ pc = "raised"

TypeOK ==
    /\ pc \in {"idle", "closure", "assign", "sort", "returned", "raised"}
    /\ error \in {"none", "KeyError", "ValueError"}
    /\ manager.pc \in {"none", "setup", "write", "read", "ready"}

----------------------------------------------------------------------------
(* The dependency graph the Bundles declare, read off their lists *)

Enabled == enabled_plugins(plugins)

\* x must precede y in mode rm: y lists x in its after list or x lists y in
\* its before list, both enabled
MustPrecede(x, y, rm) ==
    /\ x \in Enabled
    /\ y \in Enabled
    /\ \/ x \in AfterList(bundles[y], rm)
       \/ y \in BeforeList(bundles[x], rm)

\* a non-empty set of enabled names each of which has a prerequisite in the set
Cyclic(rm) ==
    \E S \in SUBSET Enabled :
        /\ S # {}
        /\ \A y \in S : \E x \in S : MustPrecede(x, y, rm)

\* the positions of the Units of the Bundle called name in the output
PositionsOf(name) == {i \in DOMAIN ordered_plugins : plugins[ordered_plugins[i]] = name}

----------------------------------------------------------------------------
(* C1: when a call on Units with acyclic constraints has returned, every     *)
(* Bundle of an edge "x must precede y" has a Unit in the output and every   *)
(* Unit of x stands at a strictly smaller index than every Unit of y; a call *)
(* on acyclic constraints does not raise.                                    *)
C1_OrderRespectsConstraints ==
    /\ pc = "raised" => Cyclic(read_mode)
    /\ (pc = "returned" /\ ~Cyclic(read_mode)) =>
          \A x \in Enabled, y \in Enabled :
              MustPrecede(x, y, read_mode) =>
                  /\ PositionsOf(x) # {}
                  /\ PositionsOf(y) # {}
                  /\ \A i \in PositionsOf(x), j \in PositionsOf(y) : i < j

\* B declares write_before=[A] while A is listed first: the write order is b, a
C1_Witness ==
    /\ pc = "returned"
    /\ read_mode = FALSE
    /\ plugins = <<"A", "B", "C">>
    /\ bundles["B"].write_before = {"A"}
    /\ bundles["C"].write_after = {"A"}
    /\ ordered_plugins = <<2, 1, 3>>

(* C2: whenever the enabled Bundles of the mode of a call form a cycle, the  *)
(* call ends by raising the circular-dependency error (ValueError).          *)
C2_CycleRaises ==
    (pc = "closure" /\ Cyclic(read_mode)) ~> (pc = "raised" /\ error = "ValueError")

(* C3: in every call each of the two loops runs at most as many iterations   *)
(* as there are enabled Bundles.                                             *)
C3_LoopsBounded ==
    /\ closure_iters <= Cardinality(Enabled)
    /\ sort_iters <= Cardinality(Enabled)

(* C4: constructing a Manager is all-or-nothing: when the Units of the kind   *)
(* being resolved have a circular dependency in the mode being resolved the  *)
(* construction fails with the circular-dependency error, and a Manager that *)
(* is constructed exposes a write and a read order for each of the kinds.    *)
C4_ManagerAllOrNothing ==
    /\ (manager.pc \in {"write", "read"} /\ pc = "closure" /\ Cyclic(read_mode))
          ~> (ManagerFailed /\ error = "ValueError")
    /\ [](manager.pc = "ready" =>
             /\ Len(manager.orders) = Len(KindOrder)
             /\ \A k \in DOMAIN manager.orders :
                    DOMAIN manager.orders[k] = {"write_order", "read_order"})

----------------------------------------------------------------------------
(* Inputs related to the input of the call *)

\* every list of every Bundle cut down to the names in keep
OnlyNames(bnd, keep) ==
    [n \in DOMAIN bnd |->
        Plugin(bnd[n].write_before \cap keep, bnd[n].write_after \cap keep,
               bnd[n].read_before \cap keep, bnd[n].read_after \cap keep)]

\* the lists of the mode other than rm emptied
OnlyMode(bnd, rm) ==
    [n \in DOMAIN bnd |->
        IF rm THEN Plugin({}, {}, bnd[n].read_before, bnd[n].read_after)
        ELSE Plugin(bnd[n].write_before, bnd[n].write_after, {}, {})]

\* every declaration "y in x.before" of mode rm between names of en replaced
\* by "x in y.after".  Two inputs of which one is the other with one before
\* declaration replaced by its after declaration, or one after declaration by
\* its before declaration, are taken to the same Bundles.
BeforeAsAfter(bnd, rm, en) ==
    [y \in DOMAIN bnd |->
        LET moved == {x \in en : y \in en /\ y \in BeforeList(bnd[x], rm)}
            kept  == IF y \in en THEN BeforeList(bnd[y], rm) \ en
                     ELSE BeforeList(bnd[y], rm)
        IN  IF rm THEN [bnd[y] EXCEPT !.read_after = @ \cup moved, !.read_before = kept]
            ELSE [bnd[y] EXCEPT !.write_after = @ \cup moved, !.write_before = kept]]

\* the call in progress agrees with what solve_plugin_order does on the same
\* Units, the same mode and the other Bundles bnd: the same order when it has
\* returned, the same exception when it has raised, and no end for bnd when
\* its closure loop has run longer than any loop that ends
SameOutcome(bnd) ==
    LET other == Solve(plugins, bnd, read_mode)
    IN  bnd # bundles =>
          /\ pc = "returned" => other = [status |-> "returned", order |-> ordered_plugins]
          /\ pc = "raised" => other.status = error
          /\ (pc = "assign" /\ closure_iters > Cardinality(Enabled))
                => other.status = "diverges"

InCall == pc \in {"closure", "assign", "sort", "returned", "raised"}

----------------------------------------------------------------------------
(* C5: a call behaves as it does on the Bundles with every name that is not  *)
(* enabled deleted from all four lists, and no KeyError comes of such a name *)
C5_DisabledNamesInert ==
    InCall => /\ SameOutcome(OnlyNames(bundles, Enabled))
              /\ error # "KeyError"

\* only A is enabled, A declares write_after=[B] and write_before=[B]
C5_Witness ==
    /\ pc = "returned"
    /\ read_mode = FALSE
    /\ plugins = <<"A">>
    /\ bundles["A"].write_after = {"B"}
    /\ bundles["A"].write_before = {"B"}
    /\ ordered_plugins = <<1>>

(* C6: a call in one mode behaves as it does on the Bundles with the lists   *)
(* of the other mode emptied, so the lists of the other mode do not affect   *)
(* its order                                                                 *)
C6_ModesIndependent ==
    InCall => SameOutcome(OnlyMode(bundles, read_mode))

\* A is a prerequisite of B in write mode and its dependent in read mode: the
\* read call returns b, a
C6_Witness ==
    /\ pc = "returned"
    /\ read_mode = TRUE
    /\ plugins = <<"A", "B">>
    /\ bundles["A"].write_before = {"B"}
    /\ bundles["A"].read_after = {"B"}
    /\ ordered_plugins = <<2, 1>>

C8_BeforeMirrorsAfter ==
    InCall => SameOutcome(BeforeAsAfter(bundles, read_mode, Enabled))

\* B declares write_before=[A], C declares write_after=[B]: b, a, c
C8_Witness ==
    /\ pc = "returned"
    /\ read_mode = FALSE
    /\ plugins = <<"A", "B", "C">>
    /\ bundles["B"].write_before = {"A"}
    /\ bundles["C"].write_after = {"B"}
    /\ ordered_plugins = <<2, 1, 3>>

(* C9: no Bundle with an empty or missing name is ever constructed           *)
C9_NoEmptyName ==
    "" \notin DOMAIN bundles

(* C10: the output of a call that has returned is a permutation of the input *)
(* list: every Unit appears in it exactly once and nothing else does         *)
C10_OutputIsPermutation ==
    pc = "returned" =>
        /\ Len(ordered_plugins) = Len(plugins)
        /\ Range(ordered_plugins) = DOMAIN plugins

----------------------------------------------------------------------------
(* The batches of the sort, read off the lists of the Bundles *)

\* the enabled Bundles that must precede the Bundle called name in mode rm
Prerequisites(name, rm) == {x \in Enabled : MustPrecede(x, name, rm)}

\* the length of the longest chain of prerequisites that ends in the Bundle
\* called name; defined when the constraints of mode rm are acyclic
RECURSIVE Depth(_, _)
Depth(name, rm) ==
    LET pre == Prerequisites(name, rm)
    IN  IF pre = {} THEN 0
        ELSE LET ds == {Depth(x, rm) : x \in pre}
             IN  1 + CHOOSE d \in ds : \A e \in ds : e <= d

\* the position of the first Unit of the Bundle called name in the input list
DeclarationIndex(name) ==
    CHOOSE i \in DOMAIN plugins :
        /\ plugins[i] = name
        /\ \A j \in DOMAIN plugins : plugins[j] = name => i <= j

\* x comes before y in the order by (depth, declaration index)
BatchBefore(x, y, rm) ==
    \/ Depth(x, rm) < Depth(y, rm)
    \/ /\ Depth(x, rm) = Depth(y, rm)
       /\ DeclarationIndex(x) < DeclarationIndex(y)

\* the Bundle names of the Units of the output, in output order
OutputNames == [i \in DOMAIN ordered_plugins |-> plugins[ordered_plugins[i]]]

(* C11: when a call on acyclic constraints has returned, the Bundle names of *)
(* the output are exactly the enabled Bundles, each once, in strictly        *)
(* increasing order of (depth, declaration index): a Bundle of smaller depth *)
(* comes first, and Bundles of equal depth keep the order of their first     *)
(* Units in the input.                                                       *)
C11_OutputSortedByDepthThenIndex ==
    (pc = "returned" /\ ~Cyclic(read_mode)) =>
        /\ Range(OutputNames) = Enabled
        /\ \A i \in DOMAIN OutputNames, j \in DOMAIN OutputNames :
               i < j => BatchBefore(OutputNames[i], OutputNames[j], read_mode)

\* A declares write_after=[C]: B and C have depth 0 and keep input order, A
\* has depth 1 and comes last although it is declared first
C11_Witness ==
    /\ pc = "returned"
    /\ read_mode = FALSE
    /\ plugins = <<"A", "B", "C">>
    /\ bundles["A"].write_after = {"C"}
    /\ bundles["B"].write_after = {}
    /\ bundles["B"].write_before = {}
    /\ bundles["C"].write_after = {}
    /\ bundles["C"].write_before = {}
    /\ ordered_plugins = <<2, 3, 1>>

----------------------------------------------------------------------------
(* C12: whenever the reachability pass of a call has finished, that is, the  *)
(* loop test of line 222 has found the queue empty, needed_plugins is        *)
(* exactly the set of enabled Bundle names and restricting plugin_map and    *)
(* dependency_map to it removes no entry; and when the sort is about to      *)
(* start, both maps are the maps the two loops of lines 198-218 built.       *)
C12_ClosurePassIsNoOp ==
    /\ (pc = "closure" /\ queue = {}) =>
          /\ needed_plugins = Enabled
          /\ Restrict(plugin_map, needed_plugins) = plugin_map
          /\ prune(dependency_map.keys, dependency_map.deps, needed_plugins)
                 = dependency_map
    /\ (pc = "sort" /\ sort_iters = 0) =>
          LET maps == BuildMaps(plugins, bundles, read_mode)
          IN  /\ needed_plugins = Enabled
              /\ plugin_map = maps.plugin_map
              /\ dependency_map = [keys |-> maps.keys, deps |-> maps.deps]

\* A lists C, which is not enabled, and B lists A: the pass runs two
\* iterations over the edge B -> A and ends with both names needed
C12_Witness ==
    /\ pc = "sort"
    /\ sort_iters = 0
    /\ read_mode = FALSE
    /\ plugins = <<"A", "B">>
    /\ bundles["A"].write_after = {"C"}
    /\ bundles["B"].write_after = {"A"}
    /\ closure_iters = 2
    /\ needed_plugins = {"A", "B"}
    /\ dependency_map.deps = [n \in {"A", "B"} |-> IF n = "B" THEN {"A"} ELSE {}]

====
